---- MODULE Spec2Model ----
(***************************************************************************)
(* Model of DualVariableWarmStartOSQPInterface                             *)
(* (modules/planning/open_space/trajectory_smoother/                       *)
(*  dual_variable_warm_start_osqp_interface.cc).                           *)
(*                                                                         *)
(* Conventions.                                                            *)
(*  - Eigen matrices are functions with 0-based domains, M[row][col].      *)
(*  - std::vector and C arrays are sequences; element i of the code is     *)
(*    element i+1 of the sequence.                                         *)
(*  - c_float values are restricted to integer-valued inputs.  A heading   *)
(*    is given in quarter turns (units of pi/2), so that cos and sin are   *)
(*    exactly -1, 0 or 1.  Ego extents are chosen so that the halvings of  *)
(*    the constructor are exact.                                           *)
(*  - The literals 0.0 and 2e19 of the bound vectors are kept as decimal   *)
(*    mantissa/exponent records.                                           *)
(***************************************************************************)
EXTENDS Integers, Sequences, FiniteSets, TLC

\* ----------------------------------------------------------------- bounds
MaxHorizon == 1
MaxObstacles == 2
MaxEdges == 2
MaxCalls == 2

VARIABLES
  \* constructor arguments kept as fields
  horizon_, obstacles_num_, ego_, obstacles_edges_num_, obstacles_A_,
  obstacles_b_, xWS_,
  \* fields derived by the constructor
  w_ev_, l_ev_, g_, offset_, obstacles_edges_sum_, l_start_index_,
  n_start_index_, lambda_horizon_, miu_horizon_, num_of_variables_,
  num_of_constraints_,
  \* result matrices
  l_warm_up_, n_warm_up_,
  \* the OSQPData of the most recent optimize() call
  data_n, data_m, data_P, data_q, data_A, data_l, data_u,
  \* the solver's answer to the most recent optimize() call
  status_val, solution_x,
  \* return value of the most recent optimize() call: "none", "true", "false"
  ret,
  \* number of live solver-native structures of each kind
  heap,
  \* a CHECK failed and the process aborted
  aborted,
  \* number of optimize() calls made
  calls,
  \* the caller's matrices written by get_optimization_results()
  out_l_warm_up, out_n_warm_up

config_vars == <<horizon_, obstacles_num_, ego_, obstacles_edges_num_,
                 obstacles_A_, obstacles_b_, xWS_, w_ev_, l_ev_, g_, offset_,
                 obstacles_edges_sum_, l_start_index_, n_start_index_,
                 lambda_horizon_, miu_horizon_, num_of_variables_,
                 num_of_constraints_>>

data_vars == <<data_n, data_m, data_P, data_q, data_A, data_l, data_u>>

vars == <<config_vars, l_warm_up_, n_warm_up_, data_vars, status_val,
          solution_x, ret, heap, aborted, calls, out_l_warm_up,
          out_n_warm_up>>

\* ------------------------------------------------------------ arithmetic
\* cos and sin of a heading given in quarter turns
cos(h) == CASE h % 4 = 0 -> 1 [] h % 4 = 1 -> 0 [] h % 4 = 2 -> -1 [] OTHER -> 0

sin(h) == CASE h % 4 = 0 -> 0 [] h % 4 = 1 -> 1 [] h % 4 = 2 -> 0 [] OTHER -> -1

\* Eigen::MatrixXd::Zero(rows, cols)
Zero(rows, cols) == [r \in 0..(rows - 1) |-> [c \in 0..(cols - 1) |-> 0]]

\* M.block(start, 0, rows, cols)
block(M, start, rows, cols) ==
  [r \in 0..(rows - 1) |-> [c \in 0..(cols - 1) |-> M[start + r][c]]]

\* M.sum() of a column matrix with the given number of rows
RECURSIVE sum(_, _)
sum(M, rows) == IF rows = 0 THEN 0 ELSE M[rows - 1][0] + sum(M, rows - 1)

\* The decimal literals of the bound vectors
Lit0 == [mant |-> 0, exp |-> 0]

Lit2e19 == [mant |-> 2, exp |-> 19]

\* --------------------------------------------------------------- inputs
\* Half-plane rows (normal, offset) the obstacle edges are drawn from
EdgeTable == << <<1, 0, 3>>, <<0, 1, 4>>, <<-1, 2, 5>>, <<2, -1, 6>>,
                <<1, 1, 7>>, <<-2, -1, 8>>, <<3, 1, 9>>, <<1, -3, 10>>,
                <<-1, -1, 11>> >>

\* Stacked obstacle rows: row r is entry r + v of the table, cyclically
EdgeRow(r, v) == EdgeTable[((r + v) % Len(EdgeTable)) + 1]

\* Ego extents (front, left, rear, right) with even length and width; the
\* vehicle of trajectory t is entry t + 1
EgoTable == << <<3, 1, 1, 1>>, <<5, 2, 1, 2>> >>

\* Warm-start trajectories: pose of step i of trajectory t
Pose(t, i) == <<t + 2 * i, 1 - i - t, t + i>>

TrajSet == 0..1

VariantSet == {0}

StatusVals == {1, 2, 3, -3}

\* Solution vectors the solver may hand back for n variables
SolutionVectors(n) == { [k \in 1..n |-> k], [k \in 1..n |-> 2 * (n - k) + 50] }

\* ---------------------------------------------------------- construction
Init ==
  /\ horizon_ \in 0..MaxHorizon
  /\ obstacles_num_ \in 0..MaxObstacles
  /\ obstacles_edges_num_ \in
       [0..(obstacles_num_ - 1) -> [0..0 -> 1..MaxEdges]]
  /\ obstacles_edges_sum_ = sum(obstacles_edges_num_, obstacles_num_)
  /\ \E v \in VariantSet :
       /\ obstacles_A_ = [r \in 0..(obstacles_edges_sum_ - 1) |->
                            [c \in 0..1 |-> EdgeRow(r, v)[c + 1]]]
       /\ obstacles_b_ = [r \in 0..(obstacles_edges_sum_ - 1) |->
                            [c \in 0..0 |-> EdgeRow(r, v)[3]]]
  /\ \E t \in TrajSet :
       /\ xWS_ = [r \in 0..2 |-> [i \in 0..horizon_ |-> Pose(t, i)[r + 1]]]
       /\ ego_ = [r \in 0..3 |-> [c \in 0..0 |-> EgoTable[t + 1][r + 1]]]
  /\ w_ev_ = ego_[1][0] + ego_[3][0]
  /\ l_ev_ = ego_[0][0] + ego_[2][0]
  /\ g_ = <<l_ev_ \div 2, w_ev_ \div 2, l_ev_ \div 2, w_ev_ \div 2>>
  /\ offset_ = (ego_[0][0] + ego_[2][0]) \div 2 - ego_[2][0]
  /\ l_start_index_ = 0
  /\ n_start_index_ = l_start_index_ + obstacles_edges_sum_ * (horizon_ + 1)
  /\ l_warm_up_ = Zero(obstacles_edges_sum_, horizon_ + 1)
  /\ n_warm_up_ = Zero(4 * obstacles_num_, horizon_ + 1)
  /\ lambda_horizon_ = obstacles_edges_sum_ * (horizon_ + 1)
  /\ miu_horizon_ = obstacles_num_ * 4 * (horizon_ + 1)
  /\ num_of_variables_ = lambda_horizon_ + miu_horizon_
  /\ num_of_constraints_ =
       3 * obstacles_num_ * (horizon_ + 1) + num_of_variables_
  /\ data_n = 0 /\ data_m = 0
  /\ data_P = [data |-> <<>>, indices |-> <<>>, indptr |-> <<>>]
  /\ data_A = [data |-> <<>>, indices |-> <<>>, indptr |-> <<>>]
  /\ data_q = <<>> /\ data_l = <<>> /\ data_u = <<>>
  /\ status_val = 0
  /\ solution_x = <<>>
  /\ ret = "none"
  /\ heap = [settings |-> 0, data |-> 0, P |-> 0, A |-> 0, work |-> 0]
  /\ aborted = FALSE
  /\ calls = 0
  /\ out_l_warm_up = <<>>
  /\ out_n_warm_up = <<>>

\* ------------------------------------------------------------ assemble_P
\* Aj * Aj.transpose() for an (e x 2) matrix
MulTranspose(Aj, e) ==
  [r \in 0..(e - 1) |->
     [c \in 0..(e - 1) |-> Aj[r][0] * Aj[c][0] + Aj[r][1] * Aj[c][1]]]

\* column loop of the first obstacle loop: P_tmp gets the block column-major
RECURSIVE P_tmp_cols(_, _, _)
P_tmp_cols(AAj, c, current_edges_num) ==
  IF c >= current_edges_num THEN <<>>
  ELSE [r \in 1..current_edges_num |-> AAj[r - 1][c]]
         \o P_tmp_cols(AAj, c + 1, current_edges_num)

\* first obstacle loop of assemble_P
RECURSIVE P_tmp_loop(_, _)
P_tmp_loop(j, edges_counter) ==
  IF j >= obstacles_num_ THEN <<>>
  ELSE LET current_edges_num == obstacles_edges_num_[j][0]
           Aj == block(obstacles_A_, edges_counter, current_edges_num, 2)
           AAj == MulTranspose(Aj, current_edges_num)
       IN  P_tmp_cols(AAj, 0, current_edges_num)
             \o P_tmp_loop(j + 1, edges_counter + current_edges_num)

\* column loop of the second part: one column pointer and the row indices
\* of each column of the block.  st holds the locals of assemble_P.
RECURSIVE P_col_loop(_, _)
P_col_loop(st, current_edges_num) ==
  IF st.c >= current_edges_num THEN st
  ELSE P_col_loop(
         [st EXCEPT
            !.indptr = Append(@, st.first_row_location),
            !.indices = @ \o [r \in 1..current_edges_num |->
                                (r - 1) + st.l_index],
            !.first_row_location = @ + current_edges_num,
            !.c = @ + 1],
         current_edges_num)

\* a variant of P_update_index that leaves l_index where it was
P_update_index_no_l_index(st, current_edges_num) ==
  [st EXCEPT !.edges_counter = @ + current_edges_num]

\* index update after the columns of one obstacle
P_update_index(st, current_edges_num) ==
  [st EXCEPT !.edges_counter = @ + current_edges_num,
             !.l_index = @ + current_edges_num]

\* obstacle loop of the second part
RECURSIVE P_obs_loop(_)
P_obs_loop(st) ==
  IF st.j >= obstacles_num_ THEN st
  ELSE LET current_edges_num == obstacles_edges_num_[st.j][0]
           s1 == P_col_loop([st EXCEPT !.c = 0], current_edges_num)
       IN  P_obs_loop([P_update_index(s1, current_edges_num)
                         EXCEPT !.j = @ + 1])

\* step loop of the second part
RECURSIVE P_step_loop(_, _)
P_step_loop(st, P_tmp) ==
  IF st.i >= horizon_ + 1 THEN st
  ELSE P_step_loop(
         [P_obs_loop([st EXCEPT !.edges_counter = 0,
                                !.data = @ \o P_tmp,
                                !.j = 0])
            EXCEPT !.i = @ + 1],
         P_tmp)

\* a variant of P_indptr_pad whose loop stops one entry early
P_indptr_pad_short(first_row_location) ==
  [i \in 1..(num_of_variables_ - lambda_horizon_) |-> first_row_location]

\* the column pointers of the mu columns and the closing pointer
P_indptr_pad(first_row_location) ==
  [i \in 1..(num_of_variables_ + 1 - lambda_horizon_) |-> first_row_location]

\* assemble_P: the three arrays, and whether its CHECKs on them passed
\* (the two CHECKs on the shape of Aj * Aj.transpose() hold of any product)
assemble_P ==
  LET P_tmp == P_tmp_loop(0, 0)
      st == P_step_loop([data |-> <<>>, indices |-> <<>>, indptr |-> <<>>,
                         l_index |-> l_start_index_,
                         first_row_location |-> 0,
                         edges_counter |-> 0, i |-> 0, j |-> 0, c |-> 0],
                        P_tmp)
      P_indptr == st.indptr \o P_indptr_pad(st.first_row_location)
  IN  [data |-> st.data, indices |-> st.indices, indptr |-> P_indptr,
       checks |-> /\ Len(st.indptr) = lambda_horizon_
                  /\ Len(st.data) = Len(st.indices)
                  /\ Len(P_indptr) = num_of_variables_ + 1]

\* --------------------------------------------------- assemble_constraint
\* R of step i, as the code fills it (row-major comma initialiser)
R(i) == [r \in 0..1 |-> [c \in 0..1 |->
           IF r = c THEN cos(xWS_[2][i]) ELSE sin(xWS_[2][i])]]

\* t_trans of step i
t_trans(i) == [r \in 0..0 |-> [c \in 0..1 |->
                 IF c = 0 THEN xWS_[0][i] + cos(xWS_[2][i]) * offset_
                 ELSE xWS_[1][i] + sin(xWS_[2][i]) * offset_]]

\* r1_block = R * Aj.transpose(), a (2 x e) matrix
r1_block(Rm, Aj, e) ==
  [r \in 0..1 |-> [k \in 0..(e - 1) |->
     Rm[r][0] * Aj[k][0] + Rm[r][1] * Aj[k][1]]]

\* r2_block = t_trans * Aj.transpose() - bj.transpose(), a (1 x e) matrix
r2_block(t, Aj, bj, e) ==
  [r \in 0..0 |-> [k \in 0..(e - 1) |->
     t[0][0] * Aj[k][0] + t[0][1] * Aj[k][1] - bj[k][0]]]

\* one lambda column: four entries and its column pointer.
\* st holds the locals of assemble_constraint.
A_lambda_col(st, r1b, r2b) ==
  [st EXCEPT
     !.data = @ \o <<r1b[0][st.k], r1b[1][st.k], r2b[0][st.k], 1>>,
     !.indices = @ \o <<st.r1_index, st.r1_index + 1, st.r2_index,
                        st.r3_index>>,
     !.r3_index = @ + 1,
     !.indptr = Append(@, st.first_row_location),
     !.first_row_location = @ + 4]

\* edge loop of the lambda part
RECURSIVE A_lambda_k_loop(_, _, _, _)
A_lambda_k_loop(st, current_edges_num, r1b, r2b) ==
  IF st.k >= current_edges_num THEN st
  ELSE A_lambda_k_loop([A_lambda_col(st, r1b, r2b) EXCEPT !.k = @ + 1],
                       current_edges_num, r1b, r2b)

\* obstacle loop of the lambda part
RECURSIVE A_lambda_obs_loop(_)
A_lambda_obs_loop(st) ==
  IF st.j >= obstacles_num_ THEN st
  ELSE LET current_edges_num == obstacles_edges_num_[st.j][0]
           Aj == block(obstacles_A_, st.edges_counter, current_edges_num, 2)
           bj == block(obstacles_b_, st.edges_counter, current_edges_num, 1)
           r1b == r1_block(R(st.i), Aj, current_edges_num)
           r2b == r2_block(t_trans(st.i), Aj, bj, current_edges_num)
           s1 == A_lambda_k_loop([st EXCEPT !.k = 0], current_edges_num,
                                 r1b, r2b)
       IN  A_lambda_obs_loop(
             [s1 EXCEPT !.edges_counter = @ + current_edges_num,
                        !.r1_index = @ + 2,
                        !.r2_index = @ + 1,
                        !.j = @ + 1])

\* step loop of the lambda part
RECURSIVE A_lambda_step_loop(_)
A_lambda_step_loop(st) ==
  IF st.i >= horizon_ + 1 THEN st
  ELSE A_lambda_step_loop(
         [A_lambda_obs_loop([st EXCEPT !.edges_counter = 0, !.j = 0])
            EXCEPT !.i = @ + 1])

\* a variant of A_miu_col that picks the group-1 row by k / 2
A_miu_col_half(st) ==
  [st EXCEPT
     !.data = @ \o <<IF st.k < 2 THEN 1 ELSE -1, g_[st.k + 1], 1>>,
     !.indices = @ \o <<st.r1_index + (st.k \div 2), st.r2_index,
                        st.r4_index>>,
     !.r4_index = @ + 1,
     !.indptr = Append(@, st.first_row_location),
     !.first_row_location = @ + 3]

\* one mu column: three entries and its column pointer
A_miu_col(st) ==
  [st EXCEPT
     !.data = @ \o <<IF st.k < 2 THEN 1 ELSE -1, g_[st.k + 1], 1>>,
     !.indices = @ \o <<st.r1_index + (st.k % 2), st.r2_index, st.r4_index>>,
     !.r4_index = @ + 1,
     !.indptr = Append(@, st.first_row_location),
     !.first_row_location = @ + 3]

\* corner loop of the mu part
RECURSIVE A_miu_k_loop(_)
A_miu_k_loop(st) ==
  IF st.k >= 4 THEN st
  ELSE A_miu_k_loop([A_miu_col(st) EXCEPT !.k = @ + 1])

\* obstacle loop of the mu part
RECURSIVE A_miu_obs_loop(_)
A_miu_obs_loop(st) ==
  IF st.j >= obstacles_num_ THEN st
  ELSE A_miu_obs_loop(
         [A_miu_k_loop([st EXCEPT !.k = 0])
            EXCEPT !.r1_index = @ + 2, !.r2_index = @ + 1, !.j = @ + 1])

\* step loop of the mu part
RECURSIVE A_miu_step_loop(_)
A_miu_step_loop(st) ==
  IF st.i >= horizon_ + 1 THEN st
  ELSE A_miu_step_loop([A_miu_obs_loop([st EXCEPT !.j = 0])
                          EXCEPT !.i = @ + 1])

\* assemble_constraint: the three arrays, and whether its CHECKs passed
assemble_constraint ==
  LET st0 == [data |-> <<>>, indices |-> <<>>, indptr |-> <<>>,
              r1_index |-> 0,
              r2_index |-> 2 * obstacles_num_ * (horizon_ + 1),
              r3_index |-> 3 * obstacles_num_ * (horizon_ + 1),
              r4_index |-> 3 * obstacles_num_ * (horizon_ + 1)
                             + lambda_horizon_,
              first_row_location |-> 0,
              edges_counter |-> 0, i |-> 0, j |-> 0, k |-> 0]
      st1 == A_lambda_step_loop(st0)
      st2 == A_miu_step_loop(
               [st1 EXCEPT !.r1_index = 0,
                           !.r2_index = 2 * obstacles_num_ * (horizon_ + 1),
                           !.i = 0])
      A_indptr == Append(st2.indptr, st2.first_row_location)
  IN  [data |-> st2.data, indices |-> st2.indices, indptr |-> A_indptr,
       checks |-> /\ Len(st2.data) = Len(st2.indices)
                  /\ Len(A_indptr) = num_of_variables_ + 1]

\* -------------------------------------------------------------- optimize
\* lb[i] as the bound loop leaves it
lb_at(i) ==
  IF i >= 2 * obstacles_num_ * (horizon_ + 1)
       /\ i < 3 * obstacles_num_ * (horizon_ + 1)
  THEN Lit0 ELSE Lit0

\* a variant of ub_at whose threshold row is an equality row too
ub_at_inclusive(i) ==
  IF i <= 2 * obstacles_num_ * (horizon_ + 1) THEN Lit0 ELSE Lit2e19

\* a variant of ub_at that makes the group-2 rows equality rows
ub_at_group2(i) ==
  IF i < 3 * obstacles_num_ * (horizon_ + 1) THEN Lit0 ELSE Lit2e19

\* ub[i] as the bound loop leaves it
ub_at(i) ==
  IF i < 2 * obstacles_num_ * (horizon_ + 1) THEN Lit0 ELSE Lit2e19

\* a variant of status_ok that takes every positive status for a success
status_ok_positive(status) == status >= 1

\* the status check: TRUE when optimize() goes on to extract
status_ok(status) == ~(status # 1 /\ status # 2)

\* c_malloc, csc_matrix and osqp_setup: one more live structure of a kind
alloc(h, kind) == [h EXCEPT ![kind] = @ + 1]

\* c_free and osqp_cleanup: one live structure of a kind fewer
free(h, kind) == [h EXCEPT ![kind] = @ - 1]

\* the allocations of one call, in the order of the code
heap_after_setup(h) ==
  alloc(alloc(alloc(alloc(alloc(h, "settings"), "data"), "P"), "A"), "work")

\* the Cleanup section
heap_after_cleanup(h) ==
  free(free(free(free(free(h, "work"), "A"), "P"), "data"), "settings")

\* the lambda extraction loops; st holds the matrix and the locals
RECURSIVE extract_l_loop(_, _)
extract_l_loop(st, x) ==
  IF st.i >= horizon_ + 1 THEN st
  ELSE IF st.j >= obstacles_edges_sum_
       THEN extract_l_loop([st EXCEPT !.i = @ + 1, !.j = 0], x)
  ELSE extract_l_loop(
         [st EXCEPT !.m[st.j][st.i] = x[st.variable_index + 1],
                    !.variable_index = @ + 1,
                    !.j = @ + 1],
         x)

\* a variant of extract_l that walks the matrix row by row
extract_l_row_major(m, x, variable_index) ==
  [m |-> [j \in 0..(obstacles_edges_sum_ - 1) |-> [i \in 0..horizon_ |->
            x[variable_index + j * (horizon_ + 1) + i + 1]]],
   variable_index |-> variable_index + obstacles_edges_sum_ * (horizon_ + 1),
   i |-> horizon_ + 1, j |-> 0]

extract_l(m, x, variable_index) ==
  extract_l_loop([m |-> m, variable_index |-> variable_index,
                  i |-> 0, j |-> 0], x)

\* the mu extraction loops
RECURSIVE extract_n_loop(_, _)
extract_n_loop(st, x) ==
  IF st.i >= horizon_ + 1 THEN st
  ELSE IF st.j >= 4 * obstacles_num_
       THEN extract_n_loop([st EXCEPT !.i = @ + 1, !.j = 0], x)
  ELSE extract_n_loop(
         [st EXCEPT !.m[st.j][st.i] = x[st.variable_index + 1],
                    !.variable_index = @ + 1,
                    !.j = @ + 1],
         x)

extract_n(m, x, variable_index) ==
  extract_n_loop([m |-> m, variable_index |-> variable_index,
                  i |-> 0, j |-> 0], x)

\* the part of optimize() after osqp_solve: status check, extraction, cleanup.
\* The solution is read on the success path only; on the failure path the
\* solver is taken to hand back none.
optimize_finish(status, h1) ==
  /\ status_val' = status
  /\ IF ~status_ok(status)
     THEN /\ ret' = "false"
          /\ solution_x' = <<>>
          /\ heap' = h1
          /\ UNCHANGED <<l_warm_up_, n_warm_up_>>
     ELSE \E x \in SolutionVectors(num_of_variables_) :
            LET el == extract_l(l_warm_up_, x, 0)
                en == extract_n(n_warm_up_, x, el.variable_index)
            IN  /\ solution_x' = x
                /\ l_warm_up_' = el.m
                /\ n_warm_up_' = en.m
                /\ heap' = heap_after_cleanup(h1)
                /\ ret' = "true"

\* optimize(); the solver's status and solution are its inputs
optimize ==
  /\ ~aborted
  /\ calls < MaxCalls
  /\ LET kNumParam == num_of_variables_
         kNumConst == num_of_constraints_
         P == assemble_P
         A == assemble_constraint
     IN  IF ~P.checks \/ ~A.checks
         THEN /\ aborted' = TRUE
              /\ UNCHANGED <<l_warm_up_, n_warm_up_, data_vars, status_val,
                             solution_x, ret, heap, calls>>
         ELSE /\ aborted' = FALSE
              /\ calls' = calls + 1
              /\ data_n' = kNumParam
              /\ data_m' = kNumConst
              /\ data_P' = [data |-> P.data, indices |-> P.indices,
                            indptr |-> P.indptr]
              /\ data_q' = [i \in 1..kNumParam |-> Lit0]
              /\ data_A' = [data |-> A.data, indices |-> A.indices,
                            indptr |-> A.indptr]
              /\ data_l' = [i \in 1..kNumConst |-> lb_at(i - 1)]
              /\ data_u' = [i \in 1..kNumConst |-> ub_at(i - 1)]
              /\ \E status \in StatusVals :
                   optimize_finish(status, heap_after_setup(heap))
  /\ UNCHANGED <<config_vars, out_l_warm_up, out_n_warm_up>>

\* get_optimization_results()
get_optimization_results ==
  /\ ~aborted
  /\ out_l_warm_up' = l_warm_up_
  /\ out_n_warm_up' = n_warm_up_
  /\ UNCHANGED <<config_vars, l_warm_up_, n_warm_up_, data_vars, status_val,
                 solution_x, ret, heap, aborted, calls>>

Next ==
  \/ optimize
  \/ get_optimization_results

Spec == Init /\ [][Next]_vars

\* ======================================================================
\* Vocabulary of the properties
\* ======================================================================
\* number of (step, obstacle) pairs
NumPairs == obstacles_num_ * (horizon_ + 1)

\* index of the pair (step i, obstacle j)
PairIndex(i, j) == i * obstacles_num_ + j

Steps == 0..horizon_

Obstacles == 0..(obstacles_num_ - 1)

EdgeCount(j) == obstacles_edges_num_[j][0]

Edges(j) == 0..(EdgeCount(j) - 1)

Corners == 0..3

\* number of edges of the obstacles before obstacle j
RECURSIVE EdgeOffset(_)
EdgeOffset(j) == IF j = 0 THEN 0 ELSE EdgeOffset(j - 1) + EdgeCount(j - 1)

TotalEdges == EdgeOffset(obstacles_num_)

\* global index of lambda of (step i, obstacle j, edge k)
LambdaIndex(i, j, k) == i * TotalEdges + EdgeOffset(j) + k

\* global index of mu of (step i, obstacle j, corner k)
MuIndex(i, j, k) ==
  TotalEdges * (horizon_ + 1) + i * 4 * obstacles_num_ + 4 * j + k

\* edge k of obstacle j: its normal and its offset
Normal(j, k) == obstacles_A_[EdgeOffset(j) + k]

Offset(j, k) == obstacles_b_[EdgeOffset(j) + k][0]

Dot(a, b) == a[0] * b[0] + a[1] * b[1]

\* translation of step i: vehicle position plus the offset rotated by heading
Translation(i) ==
  [c \in 0..1 |-> IF c = 0 THEN xWS_[0][i] + offset_ * cos(xWS_[2][i])
                  ELSE xWS_[1][i] + offset_ * sin(xWS_[2][i])]

\* a CSC matrix of n columns is well formed
WellFormed(M, n) ==
  /\ Len(M.indptr) = n + 1
  /\ Len(M.data) = Len(M.indices)
  /\ \A c \in 1..(n + 1) : M.indptr[c] \in 0..Len(M.data)
  /\ \A c \in 1..n : M.indptr[c] <= M.indptr[c + 1]

\* row indices and values stored in column c (0-based) of a well-formed M
ColRows(M, c) == SubSeq(M.indices, M.indptr[c + 1] + 1, M.indptr[c + 2])

ColVals(M, c) == SubSeq(M.data, M.indptr[c + 1] + 1, M.indptr[c + 2])

\* the values stored at (row r, column c) of a well-formed M
Entries(M, r, c) ==
  { M.data[p] : p \in { q \in (M.indptr[c + 1] + 1)..M.indptr[c + 2] :
                          M.indices[q] = r } }

\* optimize() has handed a problem to the solver
Assembled == calls > 0

\* ======================================================================
\* C1
\* ======================================================================
\* C1: an optimize() call whose solver status is neither 1 (solved) nor 2
\* (solved inaccurately) returns false and leaves the lambda and mu result
\* matrices exactly as they were; a call with status 1 or 2 stores the
\* extraction of its solution; get_optimization_results() hands out the
\* stored matrices.  So the matrices handed out are always the extraction of
\* the most recent successful call, or zeros.
C1_FailureKeepsResults ==
  [][ /\ (calls' = calls + 1 /\ status_val' \notin {1, 2})
         => /\ ret' = "false"
            /\ l_warm_up_' = l_warm_up_
            /\ n_warm_up_' = n_warm_up_
      /\ (calls' = calls + 1 /\ status_val' \in {1, 2})
         => /\ ret' = "true"
            /\ l_warm_up_' = [j \in 0..(TotalEdges - 1) |-> [i \in Steps |->
                                solution_x'[i * TotalEdges + j + 1]]]
            /\ n_warm_up_' = [j \in 0..(4 * obstacles_num_ - 1) |->
                                [i \in Steps |-> solution_x'[
                                   TotalEdges * (horizon_ + 1)
                                     + i * 4 * obstacles_num_ + j + 1]]]
      /\ (calls' = calls) => (l_warm_up_' = l_warm_up_
                              /\ n_warm_up_' = n_warm_up_)
      /\ (out_l_warm_up' # out_l_warm_up \/ out_n_warm_up' # out_n_warm_up)
         => (out_l_warm_up' = l_warm_up_ /\ out_n_warm_up' = n_warm_up_)
    ]_vars

\* a failed call after a successful one, its kept results fetched
C1_Witness ==
  /\ calls = 2
  /\ ret = "false"
  /\ status_val = 3
  /\ obstacles_num_ >= 1
  /\ l_warm_up_ # Zero(obstacles_edges_sum_, horizon_ + 1)
  /\ out_l_warm_up = l_warm_up_
  /\ out_n_warm_up = n_warm_up_

\* ======================================================================
\* C2
\* ======================================================================
\* C2: when optimize() has returned, on the success path and on the failure
\* path alike, no solver-native structure (settings, problem data, its P and
\* A matrices, workspace) is still allocated.
C2_AllReleasedAtReturn ==
  (ret # "none") => \A kind \in DOMAIN heap : heap[kind] = 0

\* ======================================================================
\* C3
\* ======================================================================
\* C3: for every row index i in [0, m): l[i] = 0; u[i] = 0 if
\* i < 2 * obstacles * (horizon + 1); and u[i] = 2e19 otherwise.
C3_BoundsByIndex ==
  Assembled =>
    /\ data_m = num_of_constraints_
    /\ Len(data_l) = data_m
    /\ Len(data_u) = data_m
    /\ \A i \in 0..(data_m - 1) :
         /\ data_l[i + 1] = Lit0
         /\ (i < 2 * obstacles_num_ * (horizon_ + 1))
            => data_u[i + 1] = Lit0
         /\ (i >= 2 * obstacles_num_ * (horizon_ + 1))
            => data_u[i + 1] = Lit2e19

\* bounds built for a problem that has rows on both sides of the threshold
C3_Witness ==
  /\ Assembled
  /\ obstacles_num_ = 2
  /\ horizon_ = 1
  /\ data_u[2 * NumPairs] = Lit0
  /\ data_u[2 * NumPairs + 1] = Lit2e19

\* ======================================================================
\* C4
\* ======================================================================
\* the constraint group (1..4) of row i
Group(i) ==
  IF i < 2 * NumPairs THEN 1
  ELSE IF i < 3 * NumPairs THEN 2
  ELSE IF i < 3 * NumPairs + TotalEdges * (horizon_ + 1) THEN 3
  ELSE 4

IsEqualityRow(i) == data_l[i + 1] = Lit0 /\ data_u[i + 1] = Lit0

IsOneSidedRow(i) == data_l[i + 1] = Lit0 /\ data_u[i + 1] = Lit2e19

\* C4 as stated: every row of group 1 and of group 2 is an equality row
\* (l = u = 0); only group-3 and group-4 rows are one-sided rows.
C4_Groups12AreEqualities ==
  Assembled =>
    \A i \in 0..(data_m - 1) :
      /\ Group(i) \in {1, 2} => IsEqualityRow(i)
      /\ Group(i) \in {3, 4} => IsOneSidedRow(i)

\* C4 as amended: every row of group 1 is an equality row (l = u = 0); the
\* rows of group 2, like those of groups 3 and 4, are one-sided rows
\* (l = 0, u = 2e19).
C4_OnlyGroup1IsEquality ==
  Assembled =>
    /\ Len(data_l) = data_m
    /\ Len(data_u) = data_m
    /\ \A i \in 0..(data_m - 1) :
         /\ Group(i) = 1 => IsEqualityRow(i)
         /\ Group(i) \in {2, 3, 4} => IsOneSidedRow(i)

\* bounds built for a problem with rows in each of the four groups
C4_Witness ==
  /\ Assembled
  /\ obstacles_num_ >= 1
  /\ \A grp \in 1..4 : \E i \in 0..(data_m - 1) : Group(i) = grp
  /\ IsOneSidedRow(2 * NumPairs)

\* ======================================================================
\* C5
\* ======================================================================
\* C5: for every (step i, obstacle j), the group-2 row of the constraint
\* matrix holds translation . A_j[k] - b_j[k] in the column of edge k of
\* lambda_j and -g[k] in the column of corner k of mu_j.
C5_Group2RowEncodesOffsetBalance ==
  Assembled =>
    /\ WellFormed(data_A, data_n)
    /\ \A i \in Steps : \A j \in Obstacles :
         LET row == 2 * NumPairs + PairIndex(i, j)
         IN  /\ \A k \in Edges(j) :
                  Entries(data_A, row, LambdaIndex(i, j, k))
                    = { Dot(Translation(i), Normal(j, k)) - Offset(j, k) }
             /\ \A k \in Corners :
                  Entries(data_A, row, MuIndex(i, j, k)) = { -g_[k + 1] }

\* ======================================================================
\* C6
\* ======================================================================
\* a planar rotation by the heading of step i; dir = 1 or -1 is the sense
Rotation(i, dir) ==
  [r \in 0..1 |-> [c \in 0..1 |->
     IF r = c THEN cos(xWS_[2][i])
     ELSE IF r = 0 THEN -dir * sin(xWS_[2][i])
     ELSE dir * sin(xWS_[2][i])]]

\* C6: for every (step i, obstacle j), the two group-1 rows hold
\* R(heading_i) * A_j^T in the lambda columns, R a planar rotation (diagonal
\* cos, off-diagonal sin with opposite signs), and +1, +1, -1, -1 for the
\* corners 0..3 of mu on rows 0, 1, 0, 1 of the pair.
C6_Group1RowsEncodeRotation ==
  Assembled =>
    /\ WellFormed(data_A, data_n)
    /\ \E dir \in {1, -1} :
         \A i \in Steps : \A j \in Obstacles :
           LET row == 2 * PairIndex(i, j)
           IN  /\ \A k \in Edges(j) : \A r \in 0..1 :
                    Entries(data_A, row + r, LambdaIndex(i, j, k))
                      = { Dot(Rotation(i, dir)[r], Normal(j, k)) }
               /\ \A k \in Corners :
                    /\ Entries(data_A, row + (k % 2), MuIndex(i, j, k))
                         = { IF k < 2 THEN 1 ELSE -1 }
                    /\ Entries(data_A, row + 1 - (k % 2), MuIndex(i, j, k))
                         = {}

\* ======================================================================
\* C7
\* ======================================================================
\* C7: P is block-diagonal over the lambda indices only: for every step i
\* and obstacle j the column of edge k holds exactly the rows of the lambda
\* indices of (i, j), with the values of column k of A_j * A_j^T (the same
\* at every step), and every mu column is empty.
C7_PIsBlockDiagonalGram ==
  Assembled =>
    /\ WellFormed(data_P, data_n)
    /\ data_n = TotalEdges * (horizon_ + 1) + 4 * NumPairs
    /\ \A i \in Steps : \A j \in Obstacles : \A k \in Edges(j) :
         /\ ColRows(data_P, LambdaIndex(i, j, k))
              = [r \in 1..EdgeCount(j) |-> LambdaIndex(i, j, r - 1)]
         /\ ColVals(data_P, LambdaIndex(i, j, k))
              = [r \in 1..EdgeCount(j) |->
                   Dot(Normal(j, r - 1), Normal(j, k))]
    /\ \A c \in (TotalEdges * (horizon_ + 1))..(data_n - 1) :
         ColRows(data_P, c) = <<>>

\* P built for two obstacles of different edge counts over two steps
C7_Witness ==
  /\ Assembled
  /\ horizon_ = 1
  /\ obstacles_num_ = 2
  /\ EdgeCount(0) = 2
  /\ EdgeCount(1) = 1
  /\ Len(data_P.data) = 10

\* ======================================================================
\* C8
\* ======================================================================
\* a column-pointer array of n columns starts at 0, never decreases and has
\* n + 1 entries, and the value and row-index arrays are equally long
PointersOk(M, n) ==
  /\ Len(M.indptr) = n + 1
  /\ M.indptr[1] = 0
  /\ \A c \in 1..n : M.indptr[c] <= M.indptr[c + 1]
  /\ Len(M.data) = Len(M.indices)

\* C8: for every valid input, obstacle count 0 included, the column-pointer
\* arrays of P and of A start at 0, never decrease and have n + 1 entries,
\* the value and row-index arrays are equally long, and no CHECK of
\* assemble_P or assemble_constraint aborts.
C8_PointerArraysOk ==
  /\ ~aborted
  /\ Assembled =>
       /\ data_n = num_of_variables_
       /\ PointersOk(data_P, data_n)
       /\ PointersOk(data_A, data_n)

\* both matrices assembled for a problem without obstacles
C8_Witness ==
  /\ Assembled
  /\ ~aborted
  /\ obstacles_num_ = 0
  /\ data_n = 0
  /\ data_P.indptr = <<0>>
  /\ data_A.indptr = <<0>>

\* ======================================================================
\* C9
\* ======================================================================
\* C9: the global index of a dual variable is the same wherever it is used.
\* For lambda of (step i, obstacle j, edge k) it is LambdaIndex(i, j, k):
\* that column of P holds the rows of (i, j) and column k of A_j * A_j^T;
\* that column of A holds the offset-balance coefficient of edge k of
\* obstacle j at step i on the group-2 row of (i, j) and the identity row of
\* the same position; and a successful call reads that entry of the solution
\* into l_warm_up(edge_offset(j) + k, i).  For mu of (step i, obstacle j,
\* corner k) it is MuIndex(i, j, k): that column of A lies on the rows of
\* (i, j) and on the identity row of the same position, and a successful
\* call reads that entry of the solution into n_warm_up(4j + k, i).
C9_IndicesAgree ==
  Assembled =>
    /\ WellFormed(data_P, data_n)
    /\ WellFormed(data_A, data_n)
    /\ \A i \in Steps : \A j \in Obstacles :
         /\ \A k \in Edges(j) :
              LET idx == LambdaIndex(i, j, k)
              IN  /\ idx < data_n
                  /\ ColRows(data_P, idx)
                       = [r \in 1..EdgeCount(j) |-> LambdaIndex(i, j, r - 1)]
                  /\ ColVals(data_P, idx)
                       = [r \in 1..EdgeCount(j) |->
                            Dot(Normal(j, r - 1), Normal(j, k))]
                  /\ Entries(data_A, 2 * NumPairs + PairIndex(i, j), idx)
                       = { Dot(Translation(i), Normal(j, k)) - Offset(j, k) }
                  /\ Entries(data_A, 3 * NumPairs + idx, idx) = {1}
                  /\ (ret = "true")
                     => l_warm_up_[EdgeOffset(j) + k][i] = solution_x[idx + 1]
         /\ \A k \in Corners :
              LET idx == MuIndex(i, j, k)
              IN  /\ idx < data_n
                  /\ ColRows(data_A, idx)
                       = << 2 * PairIndex(i, j) + (k % 2),
                            2 * NumPairs + PairIndex(i, j),
                            3 * NumPairs + idx >>
                  /\ (ret = "true")
                     => n_warm_up_[4 * j + k][i] = solution_x[idx + 1]

\* a successful call on two obstacles over two steps, whose solution entries
\* are pairwise different
C9_Witness ==
  /\ Assembled
  /\ ret = "true"
  /\ horizon_ = 1
  /\ obstacles_num_ = 2
  /\ EdgeCount(0) = 2
  /\ \A a, b \in 1..Len(solution_x) :
       a # b => solution_x[a] # solution_x[b]
  /\ l_warm_up_[EdgeOffset(1)][1] = solution_x[LambdaIndex(1, 1, 0) + 1]

\* ======================================================================
\* C10
\* ======================================================================
\* a sequence of row indices lies in [0, m) and increases strictly
RowsOk(rows, m) ==
  /\ \A p \in 1..Len(rows) : rows[p] \in 0..(m - 1)
  /\ \A p \in 1..(Len(rows) - 1) : rows[p] < rows[p + 1]

\* the positions of the row-index array that name row r
PositionsOfRow(M, r) == { p \in 1..Len(M.indices) : M.indices[p] = r }

\* C10: in the constraint matrix every lambda column holds exactly 4 stored
\* entries (rows 2p and 2p + 1 of group 1, row 2 * pairs + p of group 2 and
\* its own row of group 3, p the pair index) and every mu column exactly 3
\* (the group-1 row of its pair chosen by corner parity, the group-2 row of
\* its pair and its own row of group 4); row indices lie in [0, m) and
\* increase strictly within a column; each row of groups 3 and 4 holds one
\* stored entry, equal to 1, in the column of the variable of its position.
C10_ColumnStructure ==
  Assembled =>
    /\ WellFormed(data_A, data_n)
    /\ data_n = TotalEdges * (horizon_ + 1) + 4 * NumPairs
    /\ data_m = 3 * NumPairs + data_n
    /\ \A i \in Steps : \A j \in Obstacles :
         LET p == PairIndex(i, j)
         IN  /\ \A k \in Edges(j) :
                  ColRows(data_A, LambdaIndex(i, j, k))
                    = << 2 * p, 2 * p + 1, 2 * NumPairs + p,
                         3 * NumPairs + LambdaIndex(i, j, k) >>
             /\ \A k \in Corners :
                  ColRows(data_A, MuIndex(i, j, k))
                    = << 2 * p + (k % 2), 2 * NumPairs + p,
                         3 * NumPairs + MuIndex(i, j, k) >>
    /\ \A c \in 0..(data_n - 1) : RowsOk(ColRows(data_A, c), data_m)
    /\ \A r \in (3 * NumPairs)..(data_m - 1) :
         /\ Cardinality(PositionsOfRow(data_A, r)) = 1
         /\ Entries(data_A, r, r - 3 * NumPairs) = {1}

\* A built for two obstacles over two steps: 4 entries per lambda column
\* and 3 per mu column
C10_Witness ==
  /\ Assembled
  /\ horizon_ = 1
  /\ obstacles_num_ = 2
  /\ TotalEdges = 3
  /\ Len(data_A.data) = 4 * 6 + 3 * 16
  /\ data_m = 34

====
